---- MODULE Spec2Model ----
(***************************************************************************)
(* Local Web IDE: the project node store (App.tsx handlers), the autosave  *)
(* controller (saveStatus, useDebounce, the autosave effect) and the       *)
(* persistence gateway (core/storage.ts), as one state machine.            *)
(*                                                                         *)
(* One action is one event-loop task: an event handler, a timer callback   *)
(* or an IndexedDB transaction event, together with the React re-render    *)
(* and the effects that the task's state updates schedule (operator        *)
(* Commit).  Time is a discrete clock of half seconds.                     *)
(* The UI selection (activeFileId) and the modals are not modelled.        *)
(***************************************************************************)
EXTENDS Integers, Sequences, FiniteSets, TLC

\* ------------------------------------------------------------------ bounds
\* the clock stops at MaxTime (Tick is disabled there)
MaxTime == 3
\* number of node store handler calls (edits) of one run of Spec
MaxEdits == 2
\* the same two bounds for StoreSpec, which has more handlers and inputs
StoreMaxTime == 1
StoreMaxEdits == 3
\* number of node store handler calls of one run of PathSpec
PathMaxEdits == 3
\* number of fresh node ids id('file') / id('folder') can hand out
MaxNewNodes == 2
\* number of saveProject calls that may be pending at once in the model
MaxInFlight == 2
\* pending message events, console entries and preview resets
MaxMessages == 1
MaxLogs == 2
MaxResets == 1

\* ------------------------------------------------------- program constants
\* clock ticks per second: one tick is the 500 ms of setTimeout(.., 500)
TicksPerSecond == 2
\* setTimeout(() => setSaveStatus('saved'), 500), in ticks
SavedDelay == 1
\* useDebounce delay when autosave is off: 2000 ms, in ticks
IdleDebounceDelay == 4
\* DEFAULT_SETTINGS.autosaveInterval, seconds
DefaultAutosaveInterval == 5

NULL == "null"

\* -------------------------------------------------------------- node store
FileNode(i, n, par, c, t) ==
    [id |-> i, name |-> n, type |-> "file", parentId |-> par, content |-> c,
     childrenIds |-> <<>>, createdAt |-> t, updatedAt |-> t]

FolderNode(i, n, par, ch, t) ==
    [id |-> i, name |-> n, type |-> "folder", parentId |-> par, content |-> "",
     childrenIds |-> ch, createdAt |-> t, updatedAt |-> t]

\* the project before anything is loaded (useState<Project | null>(null))
NULL_PROJECT ==
    [id |-> NULL, name |-> "", rootId |-> NULL, nodes |-> [i \in {} |-> 0],
     createdAt |-> 0, updatedAt |-> 0]

SAMPLE_PROJECT ==
    [id |-> "proj1", name |-> "my-first-project", rootId |-> "root",
     nodes |->
        [i \in {"root", "index.html", "style.css", "src", "app.js"} |->
            CASE i = "root" ->
                   FolderNode("root", "My Project", NULL,
                              <<"index.html", "src", "style.css">>, 0)
              [] i = "index.html" -> FileNode("index.html", "index.html", "root", "html", 0)
              [] i = "style.css" -> FileNode("style.css", "style.css", "root", "css", 0)
              [] i = "src" -> FolderNode("src", "src", "root", <<"app.js">>, 0)
              [] i = "app.js" -> FileNode("app.js", "app.js", "src", "js", 0)],
     createdAt |-> 0, updatedAt |-> 0]

\* the ids id('file') / id('folder') produce: fresh, never handed out twice
NewId(k) == IF k = 0 THEN "n1" ELSE IF k = 1 THEN "n2" ELSE IF k = 2 THEN "n3" ELSE "n4"

Has(p, i) == i \in DOMAIN p.nodes

SeqToSet(s) == {s[k] : k \in 1..Len(s)}

\* mutant of FilterOut: the list is returned as it is
FilterOutNothing(s, x) == s

RECURSIVE FilterOut(_, _)
\* childrenIds.filter(id => id !== nodeId)
FilterOut(s, x) ==
    IF s = <<>> THEN <<>>
    ELSE IF Head(s) = x THEN FilterOut(Tail(s), x)
    ELSE <<Head(s)>> \o FilterOut(Tail(s), x)

\* ------------------------------------------------------------------ paths
\* A JavaScript string is the sequence of its characters.  Chars gives the
\* characters of the names, references and literals the model uses.
Chars(s) ==
    CASE s = "" -> <<>>
      [] s = "a" -> <<"a">>
      [] s = "src" -> <<"s", "r", "c">>
      [] s = "app.js" -> <<"a", "p", "p", ".", "j", "s">>
      [] s = "style.css" -> <<"s", "t", "y", "l", "e", ".", "c", "s", "s">>
      [] s = "index.html" -> <<"i", "n", "d", "e", "x", ".", "h", "t", "m", "l">>
      [] s = "My Project" -> <<"M", "y", " ", "P", "r", "o", "j", "e", "c", "t">>
      [] s = "src/app.js" -> <<"s", "r", "c", "/", "a", "p", "p", ".", "j", "s">>
      [] s = "./style.css" -> <<".", "/", "s", "t", "y", "l", "e", ".", "c", "s", "s">>
      [] s = "./a" -> <<".", "/", "a">>
      [] s = "data:a" -> <<"d", "a", "t", "a", ":", "a">>
      [] s = "blob:" -> <<"b", "l", "o", "b", ":">>
      [] s = "src/index.html" ->
            <<"s", "r", "c", "/", "i", "n", "d", "e", "x", ".", "h", "t", "m", "l">>
      [] s = "missing.js" -> <<"m", "i", "s", "s", "i", "n", "g", ".", "j", "s">>
      [] s = "http://" -> <<"h", "t", "t", "p", ":", "/", "/">>
      [] s = "https://" -> <<"h", "t", "t", "p", "s", ":", "/", "/">>
      [] s = "https://h/app.js" ->
            <<"h", "t", "t", "p", "s", ":", "/", "/", "h", "/", "a", "p", "p", ".", "j", "s">>
      [] s = ".js" -> <<".", "j", "s">>
      [] s = ".css" -> <<".", "c", "s", "s">>

\* s.startsWith(prefix)
startsWith(s, prefix) ==
    Len(prefix) <= Len(s) /\ SubSeq(s, 1, Len(prefix)) = prefix

\* s.endsWith(suffix)
endsWith(s, suffix) ==
    Len(suffix) <= Len(s) /\ SubSeq(s, Len(s) - Len(suffix) + 1, Len(s)) = suffix

\* s.substring(k): the characters from index k (counted from 0) on
substring(s, k) == SubSeq(s, k + 1, Len(s))

RECURSIVE replace(_, _, _)
\* s.replace(pattern, replacement) with a string pattern: the first
\* occurrence only
replace(s, pattern, replacement) ==
    IF startsWith(s, pattern) THEN replacement \o substring(s, Len(pattern))
    ELSE IF s = <<>> THEN s
    ELSE <<Head(s)>> \o replace(Tail(s), pattern, replacement)

RECURSIVE join(_, _)
\* parts.join(separator)
join(parts, separator) ==
    IF parts = <<>> THEN <<>>
    ELSE IF Len(parts) = 1 THEN parts[1]
    ELSE parts[1] \o separator \o join(Tail(parts), separator)

\* mutant of findNodePathLoop: the separator in front of a name is left out
RECURSIVE findNodePathLoopNoSeparator(_, _, _)
findNodePathLoopNoSeparator(p, currentId, path) ==
    IF ~Has(p, currentId) THEN path
    ELSE LET currentNode == p.nodes[currentId]
             path2 == Chars(currentNode.name) \o path
         IN IF currentNode.parentId = NULL THEN <<"/">> \o path2
            ELSE findNodePathLoopNoSeparator(p, currentNode.parentId, path2)

\* mutant of findNodePathLoop: the walk stops before the root's name is added
RECURSIVE findNodePathLoopSkipsRoot(_, _, _)
findNodePathLoopSkipsRoot(p, currentId, path) ==
    IF ~Has(p, currentId) \/ p.nodes[currentId].parentId = NULL THEN path
    ELSE findNodePathLoopSkipsRoot(p, p.nodes[currentId].parentId,
                                   <<"/">> \o Chars(p.nodes[currentId].name) \o path)

RECURSIVE findNodePathLoop(_, _, _)
\* while (currentNode) { path = `/${name}${path}`; if (parentId === null) break; ... }
findNodePathLoop(p, currentId, path) ==
    IF ~Has(p, currentId) THEN path
    ELSE LET currentNode == p.nodes[currentId]
             path2 == <<"/">> \o Chars(currentNode.name) \o path
         IN IF currentNode.parentId = NULL THEN path2
            ELSE findNodePathLoop(p, currentNode.parentId, path2)

findNodePath(p, nodeId) ==
    IF ~Has(p, nodeId) THEN <<"/">>
    ELSE LET path == replace(findNodePathLoop(p, nodeId, <<>>), <<"/", "/">>, <<"/">>)
         IN IF path = <<>> THEN <<"/">> ELSE path

RECURSIVE getNodeRelativePathLoop(_, _, _)
\* while (currentNode && currentNode.parentId && currentNode.parentId !== rootId)
\* the result is the loop's final parts and currentNode
getNodeRelativePathLoop(p, currentId, parts) ==
    IF /\ Has(p, currentId)
       /\ p.nodes[currentId].parentId \notin {NULL, ""}
       /\ p.nodes[currentId].parentId # p.rootId
    THEN getNodeRelativePathLoop(p, p.nodes[currentId].parentId,
                                 <<Chars(p.nodes[currentId].name)>> \o parts)
    ELSE [parts |-> parts, currentId |-> currentId]

\* mutant of getNodeRelativePath: the final step adds the name of the node
\* the walk ended at without looking whether it is the root
getNodeRelativePathWithRoot(p, nodeId) ==
    LET l == getNodeRelativePathLoop(p, nodeId, <<>>)
        parts == IF Has(p, l.currentId)
                 THEN <<Chars(p.nodes[l.currentId].name)>> \o l.parts
                 ELSE l.parts
    IN join(parts, <<"/">>)

getNodeRelativePath(p, nodeId) ==
    LET l == getNodeRelativePathLoop(p, nodeId, <<>>)
        parts == IF Has(p, l.currentId) /\ l.currentId # p.rootId
                 THEN <<Chars(p.nodes[l.currentId].name)>> \o l.parts
                 ELSE l.parts
    IN join(parts, <<"/">>)

\* ---------------------------------------------------------------- preview
\* A document is the sequence of the pieces srcDoc tells apart: the literal
\* </head>, the attributes the pattern (href|src)=["']...["'] finds, the
\* injected script, and the text in between.  value holds an attribute's
\* characters; blob the resource its blob: URL refers to.
Item(kind, name, value, blob) == [kind |-> kind, name |-> name, value |-> value, blob |-> blob]

\* new Blob([content], { type: mimeType })
Blob(content, mimeType) == [content |-> content, type |-> mimeType]

NoBlob == Blob("", "none")

Text(t) == Item("text", t, <<>>, NoBlob)

Attr(attr, value) == Item("attr", attr, value, NoBlob)

HeadClose == Item("head", "</head>", <<>>, NoBlob)

\* the console override and the error handler put in front of </head>
injectedScript == Item("script", "preview-console", <<>>, NoBlob)

\* an inline script of one statement: the function called (or "throw")
\* and its arguments
Script(fn, args) == Item("script", fn, args, NoBlob)

\* '<h1>index.html not found in project root</h1>'
DiagnosticDocument == <<Text("<h1>index.html not found in project root</h1>")>>

\* the documents behind the contents the model uses: the sample's
\* index.html (a head, no reference), a page with references, a fragment
\* without a head, a page whose scripts use the console after the head, one
\* whose script uses it inside the head, one whose scripts post messages
\* of their own and write to localStorage; any other content is plain text
Html(content) ==
    CASE content = "html" -> <<Text("<html><head>"), HeadClose, Text("<body>")>>
      [] content = "page" ->
            <<Text("<html><head>"),
              Attr("href", Chars("./style.css")),
              HeadClose,
              Attr("src", Chars("src/app.js")),
              Attr("src", Chars("src/index.html")),
              Attr("src", Chars("missing.js")),
              Attr("src", Chars("https://h/app.js")),
              Attr("src", Chars("data:a"))>>
      [] content = "nohead" -> <<Attr("src", Chars("./a")), Attr("href", Chars("app.js"))>>
      [] content = "console" ->
            <<Text("<html><head>"),
              HeadClose,
              Script("console.log", <<"x", "undefined">>),
              Script("console.error", <<"circular">>),
              Script("throw", <<"boom">>)>>
      [] content = "early" ->
            <<Text("<html><head>"),
              Script("console.warn", <<"x">>),
              HeadClose,
              Script("console.info", <<"x">>)>>
      [] content = "intruder" ->
            <<Text("<html><head>"),
              HeadClose,
              Script("postMessage", <<"preview-console", "debug">>),
              Script("postMessage", <<"other", "log">>),
              Script("localStorage.setItem", <<"last_project_id", "ghost">>)>>
      [] content = "" -> <<>>
      [] OTHER -> <<Text(content)>>

\* Object.keys order of project.nodes: the sample's keys as written, then
\* the created ids in the order they were handed out
KeyOrder ==
    <<"root", "index.html", "style.css", "src", "app.js",
      NewId(0), NewId(1), NewId(2), NewId(3)>>

\* Object.values(project.nodes), as ids
ObjectValues(p) == SelectSeq(KeyOrder, LAMBDA i : Has(p, i))

\* mutant of htmlNode: the entry is looked up by type and name alone
htmlNodeAnywhere(p) ==
    LET found == SelectSeq(ObjectValues(p),
                           LAMBDA i : /\ p.nodes[i].type = "file"
                                      /\ p.nodes[i].name = "index.html")
    IN IF found = <<>> THEN NULL ELSE Head(found)

\* Object.values(project.nodes).find(n => n.type === 'file' &&
\*     n.name === 'index.html' && n.parentId === project.rootId), as an id
htmlNode(p) ==
    LET found == SelectSeq(ObjectValues(p),
                           LAMBDA i : /\ p.nodes[i].type = "file"
                                      /\ p.nodes[i].name = "index.html"
                                      /\ p.nodes[i].parentId = p.rootId)
    IN IF found = <<>> THEN NULL ELSE Head(found)

\* fileNode.name.endsWith('.js') ? ... : fileNode.name.endsWith('.css') ? ... : ...
mimeType(name) ==
    IF endsWith(Chars(name), Chars(".js")) THEN "application/javascript"
    ELSE IF endsWith(Chars(name), Chars(".css")) THEN "text/css"
    ELSE "text/plain"

\* the pattern matches the attribute: a value of one character or more
\* that does not start with http:// or https://
isLocalAsset(item) ==
    /\ item.kind = "attr"
    /\ item.value # <<>>
    /\ ~startsWith(item.value, Chars("http://"))
    /\ ~startsWith(item.value, Chars("https://"))

\* mutant of replaceAsset: the raw value is looked up, "./" included
replaceAssetRaw(p, item) ==
    LET found == SelectSeq(ObjectValues(p),
                           LAMBDA i : /\ p.nodes[i].type = "file"
                                      /\ getNodeRelativePath(p, i) = item.value)
    IN IF found # <<>>
       THEN LET fileNode == p.nodes[Head(found)]
            IN Item("attr", item.name, <<>>,
                    Blob(fileNode.content, mimeType(fileNode.name)))
       ELSE Attr(item.name, item.value)

\* the callback of html.replace(/(href|src)=.../g, (_, attr, rawPath) => ...)
replaceAsset(p, item) ==
    LET rawPath == item.value
        path == IF startsWith(rawPath, <<".", "/">>) THEN substring(rawPath, 2) ELSE rawPath
        found == SelectSeq(ObjectValues(p),
                           LAMBDA i : /\ p.nodes[i].type = "file"
                                      /\ getNodeRelativePath(p, i) = path)
    IN IF found # <<>>
       THEN LET fileNode == p.nodes[Head(found)]
            IN Item("attr", item.name, <<>>,
                    Blob(fileNode.content, mimeType(fileNode.name)))
       ELSE Attr(item.name, rawPath)

\* the useMemo that computes the preview document
srcDoc(p) ==
    IF p = NULL_PROJECT THEN <<>>
    ELSE IF htmlNode(p) = NULL THEN DiagnosticDocument
    ELSE LET htmlContent == Html(p.nodes[htmlNode(p)].content)
             html == replace(htmlContent, <<HeadClose>>, <<injectedScript, HeadClose>>)
         IN [k \in 1..Len(html) |->
                IF isLocalAsset(html[k]) THEN replaceAsset(p, html[k]) ELSE html[k]]

VARIABLES
    project,          \* useState project (NULL_PROJECT before init)
    saveStatus,       \* 'saved' | 'saving' | 'unsaved'
    autosaveInterval, \* settings.autosaveInterval, seconds
    debouncedProject, \* the value useDebounce returns
    debounceTimer,    \* deadlines of the pending useDebounce timeout: {} or {d}
    savedTimers,      \* deadlines of the pending setTimeout(setSaveStatus('saved'))
    inflight,         \* projects of the saveProject calls not yet settled, oldest first
    stored,           \* IndexedDB object store 'projects': project id -> project
    lastProjectId,    \* localStorage last_project_id
    now,              \* clock, in ticks
    nextId,           \* how many fresh ids were handed out
    edits,            \* how many node store handler calls were made (history)
    lastAlert,        \* text class of the alert() the last task raised, or "none"
    lastOp,           \* name of the last task that ran (history)
    srcDocMemo,       \* the value the srcDoc useMemo holds
    blobUrls,         \* how many URLs URL.createObjectURL has handed out
    previewKey,       \* useState previewKey, as the number of resets
    sandboxPc,        \* how many items of its document the iframe has processed
    messages,         \* message events posted to the host window, oldest first
    logs,             \* useState logs
    download,         \* the texts offered for download: none, or handleExport's last
    exported          \* the project handleExport last serialized (history)

vars == <<project, saveStatus, autosaveInterval, debouncedProject, debounceTimer,
          savedTimers, inflight, stored, lastProjectId, now, nextId, edits, lastAlert, lastOp,
          srcDocMemo, blobUrls, previewKey, sandboxPc, messages, logs, download, exported>>

\* the preview's state, the console's, and the export's
previewVars == <<srcDocMemo, blobUrls, previewKey, sandboxPc>>
consoleVars == <<messages, logs>>
portVars == <<download, exported>>

\* ------------------------------------------------------- handler updaters
\* Each updater is the function handed to setProject: it returns
\* [p |-> the next project, fresh |-> a new object was built,
\*  alert |-> the alert() raised, unsaved |-> setSaveStatus('unsaved') was
\*  called inside the updater, used |-> fresh ids consumed].

Result(p, fresh, alert, unsaved, used) ==
    [p |-> p, fresh |-> fresh, alert |-> alert, unsaved |-> unsaved, used |-> used]

\* mutant of NameTaken: the name is compared with the files only
NameTakenByFile(p, childrenIds, name) ==
    \E k \in 1..Len(childrenIds) :
        /\ Has(p, childrenIds[k])
        /\ p.nodes[childrenIds[k]].type = "file"
        /\ p.nodes[childrenIds[k]].name = name

\* childrenIds.some(id => p.nodes[id]?.name === name)
NameTaken(p, childrenIds, name) ==
    \E k \in 1..Len(childrenIds) :
        Has(p, childrenIds[k]) /\ p.nodes[childrenIds[k]].name = name

\* mutant of InsertNode: a name collision is reported after the parent's
\* and the project's updatedAt were already refreshed
InsertNodeStampsFirst(p, parentId, name, node) ==
    IF p = NULL_PROJECT THEN Result(p, FALSE, "none", FALSE, 0)
    ELSE IF ~Has(p, parentId) \/ p.nodes[parentId].type # "folder"
    THEN Result(p, FALSE, "InvalidParent", FALSE, 0)
    ELSE LET stamped == [p EXCEPT !.nodes[parentId].updatedAt = node.updatedAt,
                                  !.updatedAt = node.updatedAt]
         IN IF NameTaken(p, p.nodes[parentId].childrenIds, name)
            THEN Result(stamped, TRUE, "NameCollision", FALSE, 0)
            ELSE Result([stamped EXCEPT
                            !.nodes = [i \in DOMAIN p.nodes \cup {node.id} |->
                                         IF i = node.id THEN node
                                         ELSE IF i = parentId
                                         THEN [stamped.nodes[i] EXCEPT
                                                 !.childrenIds = Append(@, node.id)]
                                         ELSE p.nodes[i]]],
                        TRUE, "none", TRUE, 1)

\* mutant of InsertNode: the new id is put in front of the parent's children
InsertNodePrepends(p, parentId, name, node) ==
    IF p = NULL_PROJECT THEN Result(p, FALSE, "none", FALSE, 0)
    ELSE IF ~Has(p, parentId) \/ p.nodes[parentId].type # "folder"
    THEN Result(p, FALSE, "InvalidParent", FALSE, 0)
    ELSE IF NameTaken(p, p.nodes[parentId].childrenIds, name)
    THEN Result(p, FALSE, "NameCollision", FALSE, 0)
    ELSE LET parent == p.nodes[parentId]
             newParent == [parent EXCEPT !.childrenIds = <<node.id>> \o @,
                                         !.updatedAt = node.updatedAt]
             newNodes == [i \in DOMAIN p.nodes \cup {node.id} |->
                            IF i = node.id THEN node
                            ELSE IF i = parentId THEN newParent
                            ELSE p.nodes[i]]
         IN Result([p EXCEPT !.nodes = newNodes, !.updatedAt = node.updatedAt],
                   TRUE, "none", TRUE, 1)

\* the body shared by the setProject updaters of handleNewFile and
\* handleNewFolder; node is the FileNode / FolderNode to insert
InsertNode(p, parentId, name, node) ==
    IF p = NULL_PROJECT THEN Result(p, FALSE, "none", FALSE, 0)
    ELSE IF ~Has(p, parentId) \/ p.nodes[parentId].type # "folder"
    THEN Result(p, FALSE, "InvalidParent", FALSE, 0)
    ELSE IF NameTaken(p, p.nodes[parentId].childrenIds, name)
    THEN Result(p, FALSE, "NameCollision", FALSE, 0)
    ELSE LET parent == p.nodes[parentId]
             newParent == [parent EXCEPT !.childrenIds = Append(@, node.id),
                                         !.updatedAt = node.updatedAt]
             newNodes == [i \in DOMAIN p.nodes \cup {node.id} |->
                            IF i = node.id THEN node
                            ELSE IF i = parentId THEN newParent
                            ELSE p.nodes[i]]
         IN Result([p EXCEPT !.nodes = newNodes, !.updatedAt = node.updatedAt],
                   TRUE, "none", TRUE, 1)

NewFileUpdater(p, parentId, name, fileId, t) ==
    InsertNode(p, parentId, name, FileNode(fileId, name, parentId, "", t))

NewFolderUpdater(p, parentId, name, folderId, t) ==
    InsertNode(p, parentId, name, FolderNode(folderId, name, parentId, <<>>, t))

\* mutant of DeleteLoop: the children of a deleted folder are not queued
DeleteLoopShallow(newNodes, queue) ==
    [i \in DOMAIN newNodes \ SeqToSet(queue) |-> newNodes[i]]

RECURSIVE DeleteLoop(_, _)
\* while (queue.length > 0) { ...; delete newNodes[currentId] }
DeleteLoop(newNodes, queue) ==
    IF queue = <<>> THEN newNodes
    ELSE LET currentId == Head(queue)
             isFolder == currentId \in DOMAIN newNodes
                         /\ newNodes[currentId].type = "folder"
             q2 == IF isFolder THEN Tail(queue) \o newNodes[currentId].childrenIds
                   ELSE Tail(queue)
         IN DeleteLoop([i \in DOMAIN newNodes \ {currentId} |-> newNodes[i]], q2)

DeleteUpdater(p, nodeId, t) ==
    IF p = NULL_PROJECT \/ nodeId = p.rootId THEN Result(p, FALSE, "none", FALSE, 0)
    ELSE LET parentId == IF Has(p, nodeId) THEN p.nodes[nodeId].parentId ELSE NULL
             pruned == DeleteLoop(p.nodes, <<nodeId>>)
             newNodes ==
                IF parentId # NULL /\ parentId \in DOMAIN pruned
                   /\ pruned[parentId].type = "folder"
                THEN [pruned EXCEPT ![parentId] =
                        [@ EXCEPT !.childrenIds = FilterOut(@, nodeId),
                                  !.updatedAt = t]]
                ELSE pruned
         IN Result([p EXCEPT !.nodes = newNodes, !.updatedAt = t],
                   TRUE, "none", FALSE, 0)

FileChangeUpdater(p, id, content, t) ==
    IF p = NULL_PROJECT THEN Result(p, FALSE, "none", FALSE, 0)
    ELSE IF ~Has(p, id) \/ p.nodes[id].type # "file" \/ p.nodes[id].content = content
    THEN Result(p, FALSE, "none", FALSE, 0)
    ELSE Result([p EXCEPT !.nodes[id].content = content,
                          !.nodes[id].updatedAt = t,
                          !.updatedAt = t],
                TRUE, "none", FALSE, 0)

\* ------------------------------------------------- inputs of the handlers
\* settings the init effect may load from the settings store
AutosaveIntervals == {0, 1}
\* what the prompt() of handleNewFile / handleNewFolder returns ("" is cancel)
Names == {"", "a", "app.js"}
\* editor contents handed to handleFileChange
Contents == {"html", "x"}

\* ------------------------------------------------ render, effects, timers
\* useDebounce(project, autosaveInterval > 0 ? autosaveInterval * 1000 : 2000)
DebounceDelay ==
    IF autosaveInterval > 0 THEN autosaveInterval * TicksPerSecond
    ELSE IdleDebounceDelay

\* useDebounce's effect: a new value clears the pending timeout and arms one
useDebounce(timer, fresh) ==
    IF fresh THEN {now + DebounceDelay} ELSE timer

\* the condition of the autosave effect
AutosaveDue(s, d) ==
    d # NULL_PROJECT /\ s = "unsaved" /\ autosaveInterval > 0

\* mutant of SaveGuard: the early return looks at the project only
SaveGuardAnyStatus(p, s) == p # NULL_PROJECT

\* handleSaveProject goes past its early return
SaveGuard(p, s) == p # NULL_PROJECT /\ s = "unsaved"

\* URL.createObjectURL(blob): a URL no earlier call returned
createObjectURL(n) == Chars("blob:") \o <<ToString(n)>>

\* the document with the URLs its blobs get when the calls of one
\* computation start at number base
objectURLs(doc, base) ==
    [k \in 1..Len(doc) |->
        IF doc[k].blob # NoBlob
        THEN [doc[k] EXCEPT !.value =
                 createObjectURL(base + Cardinality({j \in 1..(k - 1) : doc[j].blob # NoBlob}))]
        ELSE doc[k]]

\* how many blobs the document refers to
BlobCount(doc) == Cardinality({k \in 1..Len(doc) : doc[k].blob # NoBlob})

\* mutant of Render: the memo is recomputed only when the entry file's
\* content is not the one it was computed from
RenderOnEntryChange(p2, changed) ==
    LET entryOf(p) == IF htmlNode(p) = NULL THEN NULL ELSE p.nodes[htmlNode(p)].content
    IN IF changed /\ entryOf(p2) # entryOf(project)
       THEN /\ srcDocMemo' = objectURLs(srcDoc(p2), blobUrls)
            /\ blobUrls' = blobUrls + BlobCount(srcDoc(p2))
            /\ sandboxPc' = IF srcDocMemo' # srcDocMemo THEN 0 ELSE sandboxPc
            /\ UNCHANGED previewKey
       ELSE UNCHANGED previewVars

\* useMemo(..., [project, previewKey]) in the render after project became
\* p2 (changed: p2 is a new object): the document is computed anew, and an
\* iframe whose srcDoc attribute changed loads the new document
Render(p2, changed) ==
    IF changed
    THEN /\ srcDocMemo' = objectURLs(srcDoc(p2), blobUrls)
         /\ blobUrls' = blobUrls + BlobCount(srcDoc(p2))
         /\ sandboxPc' = IF srcDocMemo' # srcDocMemo THEN 0 ELSE sandboxPc
         /\ UNCHANGED previewKey
    ELSE UNCHANGED previewVars

\* The re-render after a task set project to p2 (fresh: a new object),
\* saveStatus to s2 and the debounced value to d2, with the debounce timeout
\* left as timer; manual: the task was handleSaveProject and went past its
\* early return.  The autosave effect runs when one of its dependencies
\* changed, and calls handleSaveProject of this render.  saveProject runs up
\* to its transaction within the same task: the put is queued and
\* last_project_id is written.
Commit(p2, fresh, s2, d2, timer, manual) ==
    LET effectRuns == s2 # saveStatus \/ d2 # debouncedProject
        auto == ~manual /\ effectRuns /\ AutosaveDue(s2, d2) /\ SaveGuard(p2, s2)
        issue == manual \/ auto
    IN /\ issue => Len(inflight) < MaxInFlight
       /\ project' = p2
       /\ debouncedProject' = d2
       /\ debounceTimer' = useDebounce(timer, fresh)
       /\ saveStatus' = IF issue THEN "saving" ELSE s2
       /\ inflight' = IF issue THEN Append(inflight, p2) ELSE inflight
       /\ lastProjectId' = IF issue THEN p2.id ELSE lastProjectId
       /\ Render(p2, fresh)

Init ==
    /\ project = NULL_PROJECT
    /\ saveStatus = "saved"
    /\ autosaveInterval = DefaultAutosaveInterval
    /\ debouncedProject = NULL_PROJECT
    /\ debounceTimer = {}
    /\ savedTimers = <<>>
    /\ inflight = <<>>
    /\ stored = [i \in {} |-> NULL_PROJECT]
    /\ lastProjectId = NULL
    /\ now = 0
    /\ nextId = 0
    /\ edits = 0
    /\ lastAlert = "none"
    /\ lastOp = "mount"
    /\ srcDocMemo = <<>>
    /\ blobUrls = 0
    /\ previewKey = 0
    /\ sandboxPc = 0
    /\ messages = <<>>
    /\ logs = <<>>
    /\ download = <<>>
    /\ exported = NULL_PROJECT

\* the initialization effect on a first run: no stored project, so the
\* sample project is saved and becomes the current project
init(interval) ==
    /\ lastOp = "mount"
    /\ autosaveInterval' = interval
    /\ stored' = [i \in {SAMPLE_PROJECT.id} |-> SAMPLE_PROJECT]
    /\ project' = SAMPLE_PROJECT
    /\ lastProjectId' = SAMPLE_PROJECT.id
    /\ debounceTimer' =
         {now + (IF interval > 0 THEN interval * TicksPerSecond ELSE IdleDebounceDelay)}
    /\ Render(SAMPLE_PROJECT, TRUE)
    /\ lastOp' = "init"
    /\ UNCHANGED <<saveStatus, debouncedProject, savedTimers, inflight, now, nextId,
                   edits, lastAlert, consoleVars, portVars>>

Loaded == project # NULL_PROJECT

handleFileChange(id, content) ==
    /\ Loaded
    /\ LET r == FileChangeUpdater(project, id, content, now)
       IN Commit(r.p, r.fresh, "unsaved", debouncedProject, debounceTimer, FALSE)
    /\ lastOp' = "handleFileChange"
    /\ lastAlert' = "none"
    /\ edits' = edits + 1
    /\ UNCHANGED <<autosaveInterval, savedTimers, stored, now, nextId, consoleVars, portVars>>

handleNewFile(parentId, name) ==
    /\ Loaded
    /\ LET r == IF name = "" THEN Result(project, FALSE, "none", FALSE, 0)
                ELSE NewFileUpdater(project, parentId, name, NewId(nextId), now)
       IN /\ nextId + r.used <= MaxNewNodes
          /\ Commit(r.p, r.fresh, IF r.unsaved THEN "unsaved" ELSE saveStatus,
                    debouncedProject, debounceTimer, FALSE)
          /\ nextId' = nextId + r.used
          /\ lastAlert' = r.alert
    /\ lastOp' = "handleNewFile"
    /\ edits' = edits + 1
    /\ UNCHANGED <<autosaveInterval, savedTimers, stored, now, consoleVars, portVars>>

handleNewFolder(parentId, name) ==
    /\ Loaded
    /\ LET r == IF name = "" THEN Result(project, FALSE, "none", FALSE, 0)
                ELSE NewFolderUpdater(project, parentId, name, NewId(nextId), now)
       IN /\ nextId + r.used <= MaxNewNodes
          /\ Commit(r.p, r.fresh, IF r.unsaved THEN "unsaved" ELSE saveStatus,
                    debouncedProject, debounceTimer, FALSE)
          /\ nextId' = nextId + r.used
          /\ lastAlert' = r.alert
    /\ lastOp' = "handleNewFolder"
    /\ edits' = edits + 1
    /\ UNCHANGED <<autosaveInterval, savedTimers, stored, now, consoleVars, portVars>>

handleDeleteNode(nodeId, confirmed) ==
    /\ Loaded
    /\ IF confirmed
       THEN LET r == DeleteUpdater(project, nodeId, now)
            IN Commit(r.p, r.fresh, "unsaved", debouncedProject, debounceTimer, FALSE)
       ELSE UNCHANGED <<project, debouncedProject, debounceTimer, saveStatus, inflight,
                        lastProjectId, previewVars>>
    /\ lastOp' = "handleDeleteNode"
    /\ lastAlert' = "none"
    /\ edits' = edits + 1
    /\ UNCHANGED <<autosaveInterval, savedTimers, stored, now, nextId, consoleVars, portVars>>

\* the Save button: Topbar onSave
handleSaveProject ==
    /\ Loaded
    /\ IF SaveGuard(project, saveStatus)
       THEN Commit(project, FALSE, "saving", debouncedProject, debounceTimer, TRUE)
       ELSE UNCHANGED <<project, debouncedProject, debounceTimer, saveStatus, inflight,
                        lastProjectId, previewVars>>
    /\ lastOp' = "handleSaveProject"
    /\ lastAlert' = "none"
    /\ UNCHANGED <<autosaveInterval, savedTimers, stored, now, nextId, edits, consoleVars,
                   portVars>>

\* the useDebounce timeout fires: setDebouncedValue(value)
DebounceFire ==
    /\ \E d \in debounceTimer : d <= now
    /\ Commit(project, FALSE, saveStatus, project, {}, FALSE)
    /\ lastOp' = "DebounceFire"
    /\ lastAlert' = "none"
    /\ UNCHANGED <<autosaveInterval, savedTimers, stored, now, nextId, edits, consoleVars,
                   portVars>>

\* transaction.oncomplete of the oldest pending saveProject: the put is
\* durable, the promise resolves and handleSaveProject arms its timeout
saveProjectComplete ==
    /\ inflight # <<>>
    /\ LET w == Head(inflight)
       IN stored' = [i \in DOMAIN stored \cup {w.id} |-> IF i = w.id THEN w ELSE stored[i]]
    /\ inflight' = Tail(inflight)
    /\ savedTimers' = Append(savedTimers, now + SavedDelay)
    /\ lastOp' = "saveProjectComplete"
    /\ lastAlert' = "none"
    /\ UNCHANGED <<project, saveStatus, autosaveInterval, debouncedProject, debounceTimer,
                   lastProjectId, now, nextId, edits, previewVars, consoleVars, portVars>>

\* transaction.onerror: the promise rejects, nothing catches it, and
\* handleSaveProject never reaches its setTimeout
saveProjectError ==
    /\ inflight # <<>>
    /\ inflight' = Tail(inflight)
    /\ lastOp' = "saveProjectError"
    /\ lastAlert' = "none"
    /\ UNCHANGED <<project, saveStatus, autosaveInterval, debouncedProject, debounceTimer,
                   savedTimers, stored, lastProjectId, now, nextId, edits, previewVars,
                   consoleVars, portVars>>

\* setTimeout(() => setSaveStatus('saved'), 500) fires
SavedTimerFire ==
    /\ savedTimers # <<>>
    /\ Head(savedTimers) <= now
    /\ Commit(project, FALSE, "saved", debouncedProject, debounceTimer, FALSE)
    /\ savedTimers' = Tail(savedTimers)
    /\ lastOp' = "SavedTimerFire"
    /\ lastAlert' = "none"
    /\ UNCHANGED <<autosaveInterval, stored, now, nextId, edits, consoleVars, portVars>>

\* ---------------------------------------------------------- project loads
\* what FileReader and JSON.parse make of the file chosen for import:
\* json: the text parses; hasNodes: the object has a nodes member;
\* value: the object, with NULL / "" for the members it lacks
ImportFile(json, hasNodes, value) == [json |-> json, hasNodes |-> hasNodes, value |-> value]

ImportFiles ==
    { ImportFile(TRUE, TRUE, [SAMPLE_PROJECT EXCEPT !.id = "imp1", !.name = "imported"]),
      ImportFile(TRUE, TRUE, [id |-> "imp2", name |-> "bare", rootId |-> NULL,
                              nodes |-> [i \in {} |-> 0], createdAt |-> 0, updatedAt |-> 0]),
      ImportFile(TRUE, FALSE, [id |-> "imp3", name |-> "nonodes", rootId |-> "root",
                               nodes |-> [i \in {} |-> 0], createdAt |-> 0, updatedAt |-> 0]),
      ImportFile(FALSE, FALSE, NULL_PROJECT) }

\* mutant of ImportAccepts: the nodes member is not looked at
ImportAcceptsWithoutNodes(f) ==
    /\ f.json
    /\ f.value.id # NULL /\ f.value.name # ""

\* handleImport's check: JSON.parse did not throw and
\* !(!newProject.id || !newProject.name || !newProject.nodes)
ImportAccepts(f) ==
    /\ f.json
    /\ f.value.id # NULL /\ f.value.name # "" /\ f.hasNodes

\* saveProject(p) awaited to its transaction.oncomplete
StoredWith(p) == [i \in DOMAIN stored \cup {p.id} |-> IF i = p.id THEN p ELSE stored[i]]

\* the body of handleLoadProject reading the object store st: the project
\* found becomes the current project and the status is set to 'saved'
LoadProject(projectId, st) ==
    IF projectId \in DOMAIN st
    THEN /\ project' = st[projectId]
         /\ lastProjectId' = projectId
         /\ saveStatus' = "saved"
         /\ debounceTimer' = {now + DebounceDelay}
         /\ Render(st[projectId], TRUE)
    ELSE UNCHANGED <<project, lastProjectId, saveStatus, debounceTimer, previewVars>>

\* the project selector: onLoad
handleLoadProject(projectId) ==
    /\ LoadProject(projectId, stored)
    /\ lastOp' = "handleLoadProject"
    /\ lastAlert' = "none"
    /\ UNCHANGED <<autosaveInterval, debouncedProject, savedTimers, inflight, stored, now,
                   nextId, edits, consoleVars, portVars>>

\* New Project, with the gateway's transactions succeeding: a copy of the
\* sample under a fresh id and the prompted name is stored and loaded
handleNewProject(name) ==
    /\ IF name = ""
       THEN UNCHANGED <<project, lastProjectId, saveStatus, debounceTimer, stored, nextId,
                        previewVars>>
       ELSE LET newProject ==
                    [SAMPLE_PROJECT EXCEPT !.id = NewId(nextId), !.name = name,
                                           !.createdAt = now, !.updatedAt = now,
                                           !.nodes["root"].name = name]
            IN /\ nextId < MaxNewNodes
               /\ stored' = StoredWith(newProject)
               /\ LoadProject(newProject.id, stored')
               /\ nextId' = nextId + 1
    /\ lastOp' = "handleNewProject"
    /\ lastAlert' = "none"
    /\ UNCHANGED <<autosaveInterval, debouncedProject, savedTimers, inflight, now, edits,
                   consoleVars, portVars>>

\* Import, from reader.onload on, with the gateway's transactions succeeding
handleImport(f) ==
    /\ IF ImportAccepts(f)
       THEN /\ stored' = StoredWith(f.value)
            /\ LoadProject(f.value.id, stored')
            /\ lastAlert' = "none"
       ELSE /\ UNCHANGED <<project, lastProjectId, saveStatus, debounceTimer, stored,
                           previewVars>>
            /\ lastAlert' = "FormatError"
    /\ lastOp' = "handleImport"
    /\ UNCHANGED <<autosaveInterval, debouncedProject, savedTimers, inflight, now, nextId,
                   edits, consoleVars, portVars>>

\* ---------------------------------------------------------- export, import
\* JSON.stringify(project, null, 2): the members in key order, the nodes
\* object as the list of its members
JSONstringify(p) ==
    [id |-> p.id, name |-> p.name, rootId |-> p.rootId,
     nodes |-> [k \in 1..Len(ObjectValues(p)) |->
                   [key |-> ObjectValues(p)[k], value |-> p.nodes[ObjectValues(p)[k]]]],
     createdAt |-> p.createdAt, updatedAt |-> p.updatedAt]

\* mutant of JSONparse: the first member of the nodes object is lost
JSONparseTail(text) ==
    LET members == Tail(text.nodes)
    IN [id |-> text.id, name |-> text.name, rootId |-> text.rootId,
        nodes |-> [i \in {members[k].key : k \in 1..Len(members)} |->
                      LET at == CHOOSE k \in 1..Len(members) :
                                   /\ members[k].key = i
                                   /\ \A j \in (k + 1)..Len(members) : members[j].key # i
                      IN members[at].value],
        createdAt |-> text.createdAt, updatedAt |-> text.updatedAt]

\* JSON.parse of such a text: an object again, a key's last member wins
JSONparse(text) ==
    LET members == text.nodes
    IN [id |-> text.id, name |-> text.name, rootId |-> text.rootId,
        nodes |-> [i \in {members[k].key : k \in 1..Len(members)} |->
                      LET at == CHOOSE k \in 1..Len(members) :
                                   /\ members[k].key = i
                                   /\ \A j \in (k + 1)..Len(members) : members[j].key # i
                      IN members[at].value],
        createdAt |-> text.createdAt, updatedAt |-> text.updatedAt]

\* Topbar onExport: the text of the current project is offered for download
handleExport ==
    /\ Loaded
    /\ download' = <<JSONstringify(project)>>
    /\ exported' = project
    /\ lastOp' = "handleExport"
    /\ lastAlert' = "none"
    /\ UNCHANGED <<project, saveStatus, autosaveInterval, debouncedProject, debounceTimer,
                   savedTimers, inflight, stored, lastProjectId, now, nextId, edits,
                   previewVars, consoleVars>>

\* the downloaded file chosen for import
DownloadedFiles ==
    {ImportFile(TRUE, TRUE, JSONparse(download[k])) : k \in DOMAIN download}

\* ------------------------------------------------------ preview and console
\* the sandbox attribute of PreviewPanel's iframe
SandboxFlags == {"allow-scripts", "allow-same-origin"}

\* the object handed to window.parent.postMessage
Message(source, type, data) == [source |-> source, type |-> type, data |-> data]

\* JSON.parse(JSON.stringify(args)) inside the bridge's try, and the catch:
\* undefined becomes null, a circular argument makes stringify throw
BridgeData(args) ==
    IF \E k \in 1..Len(args) : args[k] = "circular"
    THEN <<"[non-serializable object]">>
    ELSE [k \in 1..Len(args) |-> IF args[k] = "undefined" THEN NULL ELSE args[k]]

\* the injected script has run in the document the iframe is showing
BridgeInstalled ==
    \E k \in 1..sandboxPc : srcDocMemo[k] = injectedScript

\* the statement the item makes the iframe run: an inline script's, or
\* that of the sample's app.js when a src refers to it
Statement(item) ==
    IF item.kind = "script" /\ item # injectedScript
    THEN [fn |-> item.name, args |-> item.value]
    ELSE IF item.kind = "attr" /\ item.name = "src"
            /\ item.blob = Blob("js", "application/javascript")
    THEN [fn |-> "console.log", args |-> <<"app.js running">>]
    ELSE [fn |-> "none", args |-> <<>>]

\* ['log', 'warn', 'error', 'info']: the k of the console[k] that is called
Channel(fn) ==
    CASE fn = "console.log" -> "log"
      [] fn = "console.warn" -> "warn"
      [] fn = "console.error" -> "error"
      [] fn = "console.info" -> "info"
      [] OTHER -> NULL

\* an uncaught exception: the bridge's error listener calls console.error
Uncaught(message, bridge) ==
    IF bridge
    THEN <<Message("preview-console", "error",
                   BridgeData(<<message, "at", "about:srcdoc:1">>))>>
    ELSE <<>>

\* the messages a statement posts to the host window
Posts(st, bridge) ==
    IF Channel(st.fn) # NULL
    THEN IF bridge
         THEN <<Message("preview-console", Channel(st.fn), BridgeData(st.args))>>
         ELSE <<>>
    ELSE IF st.fn = "throw" THEN Uncaught(st.args[1], bridge)
    ELSE IF st.fn = "postMessage" THEN <<Message(st.args[1], st.args[2], <<"x">>)>>
    ELSE IF st.fn = "localStorage.setItem" /\ "allow-same-origin" \notin SandboxFlags
    THEN Uncaught("SecurityError", bridge)
    ELSE <<>>

\* the iframe processes the next item of its document
SandboxStep ==
    /\ sandboxPc < Len(srcDocMemo)
    /\ LET item == srcDocMemo[sandboxPc + 1]
           st == IF "allow-scripts" \in SandboxFlags THEN Statement(item)
                 ELSE [fn |-> "none", args |-> <<>>]
           posted == Posts(st, BridgeInstalled)
       IN /\ Len(messages) + Len(posted) <= MaxMessages
          /\ messages' = messages \o posted
          /\ lastProjectId' =
                IF /\ st.fn = "localStorage.setItem"
                   /\ "allow-same-origin" \in SandboxFlags
                   /\ st.args[1] = "last_project_id"
                THEN st.args[2]
                ELSE lastProjectId
    /\ sandboxPc' = sandboxPc + 1
    /\ lastOp' = "SandboxStep"
    /\ UNCHANGED <<project, saveStatus, autosaveInterval, debouncedProject, debounceTimer,
                   savedTimers, inflight, stored, now, nextId, edits, lastAlert,
                   srcDocMemo, blobUrls, previewKey, logs, portVars>>

\* the host's listener takes the oldest message event; the entry's id is a
\* random key of the list and is left out
handleMessage ==
    /\ messages # <<>>
    /\ LET data == Head(messages)
       IN IF data.source = "preview-console"
          THEN /\ Len(logs) < MaxLogs
               /\ logs' = Append(logs, [type |-> data.type, timestamp |-> now,
                                        data |-> data.data])
          ELSE logs' = logs
    /\ messages' = Tail(messages)
    /\ lastOp' = "handleMessage"
    /\ lastAlert' = "none"
    /\ UNCHANGED <<project, saveStatus, autosaveInterval, debouncedProject, debounceTimer,
                   savedTimers, inflight, stored, lastProjectId, now, nextId, edits,
                   previewVars, portVars>>

\* Console onReset: setPreviewKey(Date.now()); the memo is computed anew
\* and the iframe, keyed by previewKey, is mounted again
onReset ==
    /\ Loaded
    /\ previewKey < MaxResets
    /\ previewKey' = previewKey + 1
    /\ srcDocMemo' = objectURLs(srcDoc(project), blobUrls)
    /\ blobUrls' = blobUrls + BlobCount(srcDoc(project))
    /\ sandboxPc' = 0
    /\ lastOp' = "onReset"
    /\ lastAlert' = "none"
    /\ UNCHANGED <<project, saveStatus, autosaveInterval, debouncedProject, debounceTimer,
                   savedTimers, inflight, stored, lastProjectId, now, nextId, edits,
                   consoleVars, portVars>>

\* Console onClear: setLogs([])
onClear ==
    /\ Loaded
    /\ logs' = <<>>
    /\ lastOp' = "onClear"
    /\ lastAlert' = "none"
    /\ UNCHANGED <<project, saveStatus, autosaveInterval, debouncedProject, debounceTimer,
                   savedTimers, inflight, stored, lastProjectId, now, nextId, edits,
                   previewVars, messages, portVars>>

\* half a second passes; a timeout that is due runs before the clock moves on
Tick(limit) ==
    /\ now < limit
    /\ \A d \in debounceTimer \cup SeqToSet(savedTimers) : d > now
    /\ now' = now + 1
    /\ lastOp' = "Tick"
    /\ UNCHANGED <<project, saveStatus, autosaveInterval, debouncedProject, debounceTimer,
                   savedTimers, inflight, stored, lastProjectId, nextId, edits, lastAlert,
                   previewVars, consoleVars, portVars>>

\* ---------------------------------------------------------- specifications
\* the autosave controller and the gateway, with edits of the sample's files
EditIds == {"index.html", "src", "ghost"}
DeleteIds == {"root", "ghost", "style.css"}
\* the store specification's inputs
ParentIds == {"root", "src", "index.html", "ghost", NewId(0)}
StoreDeleteIds == {"root", "src", "app.js", "ghost", NewId(0)}

Next ==
    \/ \E i \in AutosaveIntervals : init(i)
    \/ edits < MaxEdits /\ \E id \in EditIds, c \in Contents : handleFileChange(id, c)
    \/ edits < MaxEdits /\ \E id \in DeleteIds, ok \in BOOLEAN : handleDeleteNode(id, ok)
    \/ handleSaveProject
    \/ DebounceFire
    \/ saveProjectComplete
    \/ saveProjectError
    \/ SavedTimerFire
    \/ Tick(MaxTime)

Spec == Init /\ [][Next]_vars

\* the node store with autosave switched off: every handler of the tree
StoreInit == Init

StoreNext ==
    \/ init(0)
    \/ edits < StoreMaxEdits
       /\ \E id \in EditIds, c \in Contents : handleFileChange(id, c)
    \/ edits < StoreMaxEdits
       /\ \E parentId \in ParentIds, name \in Names : handleNewFile(parentId, name)
    \/ edits < StoreMaxEdits
       /\ \E parentId \in ParentIds, name \in Names : handleNewFolder(parentId, name)
    \/ edits < StoreMaxEdits
       /\ \E id \in StoreDeleteIds, ok \in BOOLEAN : handleDeleteNode(id, ok)
    \/ Tick(StoreMaxTime)

StoreSpec == StoreInit /\ [][StoreNext]_vars

\* autosave alone with a gateway whose writes succeed: Spec without the
\* Save button and without transaction errors
AutoNext ==
    \/ \E i \in AutosaveIntervals : init(i)
    \/ edits < MaxEdits /\ \E id \in EditIds, c \in Contents : handleFileChange(id, c)
    \/ edits < MaxEdits /\ \E id \in DeleteIds, ok \in BOOLEAN : handleDeleteNode(id, ok)
    \/ DebounceFire
    \/ saveProjectComplete
    \/ SavedTimerFire
    \/ Tick(MaxTime)

AutoSpec == Init /\ [][AutoNext]_vars

\* project loads (selector, new project, import) and deletions
LoadDeleteIds == {"root", "src", "ghost"}

LoadNext ==
    \/ init(0)
    \/ \E name \in Names : handleNewProject(name)
    \/ \E f \in ImportFiles : handleImport(f)
    \/ \E projectId \in DOMAIN stored \cup {"ghost"} : handleLoadProject(projectId)
    \/ edits < StoreMaxEdits
       /\ \E id \in LoadDeleteIds, ok \in BOOLEAN : handleDeleteNode(id, ok)
    \/ Tick(StoreMaxTime)

LoadSpec == Init /\ [][LoadNext]_vars

\* the tree as the path functions and the preview see it: names with and
\* without a separator, an entry file that can be deleted and created again
PathNames == {"index.html", "src/app.js", "data:a"}
\* the name a new project is given
PathRootNames == {"a"}
PathParentIds == {"root", "src", NewId(0)}
PathDeleteIds == {"index.html", "src"}
\* editor contents of index.html
HtmlContents == {"page", "nohead"}

PathNext ==
    \/ init(0)
    \/ \E name \in PathRootNames : handleNewProject(name)
    \/ edits < PathMaxEdits
       /\ \E parentId \in PathParentIds, name \in PathNames : handleNewFile(parentId, name)
    \/ edits < PathMaxEdits
       /\ \E parentId \in PathParentIds, name \in PathNames : handleNewFolder(parentId, name)
    \/ edits < PathMaxEdits
       /\ \E id \in PathDeleteIds : handleDeleteNode(id, TRUE)
    \/ edits < PathMaxEdits
       /\ \E content \in HtmlContents : handleFileChange("index.html", content)

PathSpec == Init /\ [][PathNext]_vars

\* the preview and the console: the entry file is edited, the iframe runs
\* its document, the host takes the messages
PreviewContents == {"page", "console", "early", "intruder"}

PreviewNext ==
    \/ init(0)
    \/ edits < MaxEdits
       /\ \E content \in PreviewContents : handleFileChange("index.html", content)
    \/ SandboxStep
    \/ handleMessage
    \/ onReset
    \/ onClear

PreviewSpec == Init /\ [][PreviewNext]_vars

\* the memoized document under every handler of the tree
MemoEditIds == {"index.html", "style.css", "src"}
MemoContents == {"page", "x"}
MemoParentIds == {"root", "src"}
MemoNames == {"index.html", "app.js"}
MemoDeleteIds == {"style.css", "index.html"}

MemoNext ==
    \/ init(0)
    \/ edits < MaxEdits
       /\ \E id \in MemoEditIds, c \in MemoContents : handleFileChange(id, c)
    \/ edits < MaxEdits
       /\ \E parentId \in MemoParentIds, name \in MemoNames : handleNewFile(parentId, name)
    \/ edits < MaxEdits
       /\ \E parentId \in MemoParentIds, name \in MemoNames : handleNewFolder(parentId, name)
    \/ edits < MaxEdits
       /\ \E id \in MemoDeleteIds, ok \in BOOLEAN : handleDeleteNode(id, ok)
    \/ onReset

MemoSpec == Init /\ [][MemoNext]_vars

\* export and import: edits, the Export button, and an import of the
\* downloaded file or of another file
PortFiles ==
    ImportFiles \cup
    { ImportFile(TRUE, TRUE, [SAMPLE_PROJECT EXCEPT !.id = NULL]),
      ImportFile(TRUE, TRUE, [SAMPLE_PROJECT EXCEPT !.id = "imp4", !.name = ""]) }

PortEditIds == {"index.html"}
PortContents == {"x"}
PortParentIds == {"src"}
PortNames == {"a"}
PortDeleteIds == {"style.css"}

PortNext ==
    \/ init(0)
    \/ edits < MaxEdits
       /\ \E id \in PortEditIds, c \in PortContents : handleFileChange(id, c)
    \/ edits < MaxEdits
       /\ \E parentId \in PortParentIds, name \in PortNames : handleNewFile(parentId, name)
    \/ edits < MaxEdits
       /\ \E id \in PortDeleteIds : handleDeleteNode(id, TRUE)
    \/ handleExport
    \/ \E f \in PortFiles \cup DownloadedFiles : handleImport(f)

PortSpec == Init /\ [][PortNext]_vars

\* ------------------------------------------------------------------ claims
\* a step in which storage.saveProject is called
Issued == Len(inflight') = Len(inflight) + 1

\* C1: with a nonzero autosave interval, an autosave write is never issued
\* by the task of an edit: it is issued by the debounce timeout, a full
\* interval after the last change of the project, so a burst of edits
\* closer together than the interval gives one write.
C1_AutosaveIsDebounced ==
    [][(autosaveInterval > 0 /\ Issued /\ lastOp' # "handleSaveProject")
        => (lastOp' = "DebounceFire" /\ now >= project.updatedAt + DebounceDelay)]_vars

\* C2: at most one saveProject call is in flight in every reachable state.
C2_NoPipelinedWrites == Len(inflight) <= 1

\* C3 as stated: a manual save made in Saved or in Unsaved calls the
\* gateway's write for the current project, and the controller is in Saved
\* when the write completes.
C3_ManualSaveFromSavedOrUnsaved ==
    [][/\ (lastOp' = "handleSaveProject" /\ saveStatus \in {"saved", "unsaved"})
            => inflight' = Append(inflight, project)
       /\ lastOp' = "saveProjectComplete" => saveStatus' = "saved"]_vars

\* C3 as amended: a manual save made in Unsaved calls the gateway's write
\* for the current project and moves the controller to Saving; made in Saved
\* or in Saving it calls nothing and leaves the controller where it is; a
\* completed write stores its project and arms the 500 ms timeout, and that
\* timeout sets the controller to Saved.
C3_ManualSaveFromUnsaved ==
    [][/\ lastOp' = "handleSaveProject" =>
            IF saveStatus = "unsaved"
            THEN inflight' = Append(inflight, project) /\ saveStatus' = "saving"
            ELSE UNCHANGED <<inflight, saveStatus>>
       /\ lastOp' = "saveProjectComplete" =>
            /\ stored'[Head(inflight).id] = Head(inflight)
            /\ savedTimers' = Append(savedTimers, now + SavedDelay)
            /\ UNCHANGED saveStatus
       /\ lastOp' = "SavedTimerFire" => saveStatus' = "saved"]_vars

\* C3 witness: with autosave off, an edit was saved by hand: the write
\* completed, the timeout fired and the store holds the edited project.
C3_Witness ==
    /\ autosaveInterval = 0
    /\ lastOp = "SavedTimerFire"
    /\ saveStatus = "saved"
    /\ edits > 0
    /\ project # SAMPLE_PROJECT
    /\ stored[project.id] = project

\* C4: a failed write leaves the in-memory project as it is, and the manual
\* save that follows the failure issues a new write.
C4_RetryAfterFailure ==
    [][/\ lastOp' = "saveProjectError" => project' = project
       /\ (lastOp = "saveProjectError" /\ lastOp' = "handleSaveProject") => Issued]_vars

\* C5: an updateFileContent call with the file's current content, or with
\* an id that is absent or not a File, and a deleteNode call on the root or
\* on an absent id, leave the controller state alone and start no write.
C5_RejectedMutationKeepsState ==
    [][/\ \A id \in EditIds, c \in Contents :
            (/\ handleFileChange(id, c)
             /\ (~Has(project, id) \/ project.nodes[id].type # "file"
                 \/ project.nodes[id].content = c))
            => UNCHANGED <<saveStatus, inflight>>
       /\ \A id \in DeleteIds :
            (/\ handleDeleteNode(id, TRUE)
             /\ (id = project.rootId \/ ~Has(project, id)))
            => UNCHANGED <<saveStatus, inflight>>]_vars

\* C6: with the autosave interval at zero only a manual save issues a
\* write, and the controller leaves Unsaved only by a manual save.
C6_NoAutosaveWhenOff ==
    [][autosaveInterval = 0 =>
        /\ Issued => lastOp' = "handleSaveProject"
        /\ (saveStatus = "unsaved" /\ saveStatus' # "unsaved")
              => lastOp' = "handleSaveProject"]_vars

\* C7: with a nonzero interval and writes that succeed, once the edits have
\* stopped a controller that is in Saved has the current project, last edit
\* included, in the gateway.
C7_SavedMeansStored ==
    (/\ autosaveInterval > 0
     /\ Loaded
     /\ edits = MaxEdits
     /\ saveStatus = "saved")
    => (project.id \in DOMAIN stored /\ stored[project.id] = project)

\* ------------------------------------------------------ node store claims
RECURSIVE ReachesRoot(_, _, _)
\* following parentId from i arrives at the root within fuel steps
ReachesRoot(p, i, fuel) ==
    IF i = p.rootId THEN TRUE
    ELSE IF fuel = 0 \/ ~Has(p, i) THEN FALSE
    ELSE ReachesRoot(p, p.nodes[i].parentId, fuel - 1)

Occurrences(s, x) == Cardinality({k \in 1..Len(s) : s[k] = x})

IsTree(p) ==
    /\ Has(p, p.rootId)
    /\ \A i \in DOMAIN p.nodes :
        LET n == p.nodes[i]
        IN /\ n.id = i
           /\ ReachesRoot(p, i, Cardinality(DOMAIN p.nodes))
           /\ \A k \in 1..Len(n.childrenIds) :
                /\ Has(p, n.childrenIds[k])
                /\ p.nodes[n.childrenIds[k]].parentId = i
           /\ i # p.rootId =>
                /\ Has(p, n.parentId)
                /\ p.nodes[n.parentId].type = "folder"
                /\ Occurrences(p.nodes[n.parentId].childrenIds, i) = 1

\* C8: after any sequence of createFile, createFolder, deleteNode and
\* updateFileContent calls on the sample project the node mapping is a
\* tree: every node reaches the root along parentId, every id in a
\* childrenIds names an existing node whose parentId is that folder, and
\* every non-root node is listed exactly once by its parent.
C8_NodesFormATree == Loaded => IsTree(project)

\* C8 witness: a folder with its content was deleted after a node was created
C8_Witness ==
    /\ Loaded
    /\ nextId > 0
    /\ lastOp = "handleDeleteNode"
    /\ ~Has(project, "src")
    /\ ~Has(project, "app.js")

\* C9: no two children of one folder have the same name, files or folders.
C9_SiblingNamesUnique ==
    Loaded =>
        \A i \in DOMAIN project.nodes :
            LET ch == project.nodes[i].childrenIds
            IN \A j, k \in 1..Len(ch) :
                (j # k /\ Has(project, ch[j]) /\ Has(project, ch[k]))
                    => project.nodes[ch[j]].name # project.nodes[ch[k]].name

\* C9 witness: a node was created, and a second create with a name its
\* folder already has was turned down
C9_Witness ==
    /\ nextId > 0
    /\ lastAlert = "NameCollision"
    /\ \E i \in DOMAIN project.nodes \ DOMAIN SAMPLE_PROJECT.nodes :
          project.nodes[i].name = "a"

\* a child of parentId, found by its parentId, has the name
ChildNamed(p, parentId, name) ==
    \E c \in DOMAIN p.nodes : p.nodes[c].parentId = parentId /\ p.nodes[c].name = name

\* C10: createFile and createFolder fail with InvalidParent when parentId
\* is absent or names a File, and with NameCollision when a child of the
\* parent has the name; the project after the failed call, every node,
\* childrenIds and timestamp, is the project before it.
C10_FailedCreateChangesNothing ==
    [][lastOp' \in {"handleNewFile", "handleNewFolder"} =>
        \A parentId \in ParentIds, name \in Names \ {""} :
            LET bad == ~Has(project, parentId) \/ project.nodes[parentId].type # "folder"
                dup == ~bad /\ ChildNamed(project, parentId, name)
            IN ((bad \/ dup)
                /\ (handleNewFile(parentId, name) \/ handleNewFolder(parentId, name)))
               => /\ project' = project
                  /\ bad => lastAlert' = "InvalidParent"
                  /\ dup => lastAlert' = "NameCollision"]_vars

\* C10 witness: a create failed at a later time than the project's last change
C10_Witness ==
    /\ lastOp \in {"handleNewFile", "handleNewFolder"}
    /\ lastAlert \in {"InvalidParent", "NameCollision"}
    /\ now > project.updatedAt
    /\ nextId > 0

\* the step from p to q added one node of the kind under parentId
CreatedOne(p, q, parentId, name, kind) ==
    LET added == DOMAIN q.nodes \ DOMAIN p.nodes
    IN /\ Cardinality(added) = 1
       /\ DOMAIN p.nodes \subseteq DOMAIN q.nodes
       /\ \A n \in added :
            /\ q.nodes[n].id = n
            /\ q.nodes[n].type = kind
            /\ q.nodes[n].name = name
            /\ q.nodes[n].parentId = parentId
            /\ q.nodes[n].content = ""
            /\ q.nodes[n].childrenIds = <<>>
            /\ q.nodes[parentId].childrenIds = Append(p.nodes[parentId].childrenIds, n)
       /\ \A i \in DOMAIN p.nodes :
            /\ q.nodes[i].type = p.nodes[i].type
            /\ q.nodes[i].name = p.nodes[i].name
            /\ q.nodes[i].content = p.nodes[i].content
            /\ q.nodes[i].parentId = p.nodes[i].parentId
            /\ i # parentId => q.nodes[i].childrenIds = p.nodes[i].childrenIds

\* C11: a createFile call whose parent is a Folder without a child of the
\* name adds exactly one File node, with empty content and the parent as
\* its parentId, puts its id last in the parent's childrenIds with the
\* earlier ids in their order, and leaves every other node's name, content,
\* parentId and childrenIds alone; createFolder does the same with a Folder
\* whose childrenIds is empty.
C11_CreateAddsOneNode ==
    [][lastOp' \in {"handleNewFile", "handleNewFolder"} =>
        \A parentId \in ParentIds, name \in Names \ {""} :
            (/\ Has(project, parentId)
             /\ project.nodes[parentId].type = "folder"
             /\ ~ChildNamed(project, parentId, name))
            => /\ (lastOp' = "handleNewFile" /\ handleNewFile(parentId, name))
                    => CreatedOne(project, project', parentId, name, "file")
               /\ (lastOp' = "handleNewFolder" /\ handleNewFolder(parentId, name))
                    => CreatedOne(project, project', parentId, name, "folder")]_vars

\* C11 witness: a file and a folder were created, the later one as the last
\* child of a folder that had children before
C11_Witness ==
    /\ lastOp \in {"handleNewFile", "handleNewFolder"}
    /\ lastAlert = "none"
    /\ \E f, d \in DOMAIN project.nodes \ DOMAIN SAMPLE_PROJECT.nodes :
          /\ project.nodes[f].type = "file"
          /\ project.nodes[d].type = "folder"
          /\ \E par \in DOMAIN project.nodes :
                LET ch == project.nodes[par].childrenIds
                IN Len(ch) > 1 /\ ch[Len(ch)] \in {f, d}

RECURSIVE ReachableFrom(_, _, _)
\* the ids of the mapping reachable from the ids of frontier through
\* childrenIds, added to seen
ReachableFrom(p, frontier, seen) ==
    LET fresh == (frontier \cap DOMAIN p.nodes) \ seen
    IN IF fresh = {} THEN seen
       ELSE ReachableFrom(p,
                          UNION {SeqToSet(p.nodes[i].childrenIds) : i \in fresh},
                          seen \cup fresh)

\* C12: deleteNode(id) on a node other than the root removes from the
\* mapping the ids reachable from id through childrenIds, id included, and
\* no other id; the former parent is still there and its childrenIds does
\* not contain id.
C12_DeleteRemovesSubtree ==
    [][lastOp' = "handleDeleteNode" =>
        \A id \in StoreDeleteIds :
            (id # project.rootId /\ handleDeleteNode(id, TRUE))
            => /\ DOMAIN project'.nodes =
                    DOMAIN project.nodes \ ReachableFrom(project, {id}, {})
               /\ Has(project, id) =>
                    LET par == project.nodes[id].parentId
                    IN /\ Has(project', par)
                       /\ id \notin SeqToSet(project'.nodes[par].childrenIds)]_vars

\* C12 witness: after a create and a clock tick a delete ran, the folder src
\* is gone with app.js and with every created node, and the root lists its
\* two other children in their order
C12_Witness ==
    /\ lastOp = "handleDeleteNode"
    /\ nextId > 0
    /\ DOMAIN project.nodes = {"root", "index.html", "style.css"}
    /\ project.nodes["root"].childrenIds = <<"index.html", "style.css">>
    /\ project.updatedAt > 0

\* C13: whenever a project is loaded, after node store operations and
\* loads by new project or import, rootId names an existing Folder whose
\* parentId is null, and deleteNode(rootId) leaves the project as it is.
C13_RootAlwaysThere ==
    [][/\ Loaded' =>
            /\ Has(project', project'.rootId)
            /\ project'.nodes[project'.rootId].type = "folder"
            /\ project'.nodes[project'.rootId].parentId = NULL
       /\ (Loaded /\ handleDeleteNode(project.rootId, TRUE)) => project' = project]_vars

\* C14: deleteNode(id) with an id that is not in the node mapping changes
\* nothing: the project after the call, every node and the project's
\* updatedAt included, is the project before it.
C14_DeleteAbsentIsNoOp ==
    [][lastOp' = "handleDeleteNode" =>
        \A id \in StoreDeleteIds :
            (~Has(project, id) /\ handleDeleteNode(id, TRUE)) => project' = project]_vars

\* ------------------------------------------------------------ path claims
\* a name that is one path segment: not empty and without a separator
IsSegment(name) == Chars(name) # <<>> /\ "/" \notin SeqToSet(Chars(name))

\* a valid project: a tree whose names are single segments
ValidProject(p) ==
    /\ IsTree(p)
    /\ p.nodes[p.rootId].parentId = NULL
    /\ \A i \in DOMAIN p.nodes : IsSegment(p.nodes[i].name)

\* C15 as stated: in a valid project the canonical path of the root is "/".
C15_RootPathIsSlash ==
    (Loaded /\ ValidProject(project)) => findNodePath(project, project.rootId) = <<"/">>

\* C15 as amended: in a valid project the canonical path of the root is "/"
\* followed by the root's name; "/" alone is the path of an id that is not
\* in the mapping.
C15_RootPathIsSlashName ==
    (Loaded /\ ValidProject(project)) =>
        /\ findNodePath(project, project.rootId) =
              <<"/">> \o Chars(project.nodes[project.rootId].name)
        /\ findNodePath(project, "ghost") = <<"/">>

\* C15 witness: a valid project with a root named by the user and a created node
C15_Witness ==
    /\ Loaded
    /\ ValidProject(project)
    /\ project.nodes[project.rootId].name = "a"
    /\ DOMAIN project.nodes # DOMAIN SAMPLE_PROJECT.nodes
    /\ lastOp \in {"handleNewFile", "handleNewFolder"}

\* C16: in a valid project the canonical path of every node other than the
\* root is the canonical path of its parent followed by "/" and the node's
\* name, also when the parent is the root.
C16_PathExtendsParentPath ==
    (Loaded /\ ValidProject(project)) =>
        \A n \in DOMAIN project.nodes \ {project.rootId} :
            findNodePath(project, n) =
                findNodePath(project, project.nodes[n].parentId)
                    \o <<"/">> \o Chars(project.nodes[n].name)

\* C16 witness: a valid project with a created node whose parent is not the
\* root, next to nodes whose parent is the root
C16_Witness ==
    /\ Loaded
    /\ ValidProject(project)
    /\ \E n \in DOMAIN project.nodes \ DOMAIN SAMPLE_PROJECT.nodes :
          project.nodes[n].parentId \notin {NULL, project.rootId}
    /\ \E m \in DOMAIN project.nodes : project.nodes[m].parentId = project.rootId

RECURSIVE NamesBelowRoot(_, _, _)
\* the names on the way from the root's child down to node i, by descent
\* along parentId with fuel steps left
NamesBelowRoot(p, i, fuel) ==
    IF ~Has(p, i) \/ i = p.rootId \/ fuel = 0 THEN <<>>
    ELSE Append(NamesBelowRoot(p, p.nodes[i].parentId, fuel - 1), Chars(p.nodes[i].name))

\* C17: in a valid project the relative path of a node other than the root
\* is the names from the root's child down to the node joined by "/",
\* without a leading slash and without the root's name; for the root and
\* for an id that is not in the mapping it is the empty string.
C17_RelativePathBelowRoot ==
    (Loaded /\ ValidProject(project)) =>
        /\ \A n \in DOMAIN project.nodes \ {project.rootId} :
              LET rel == getNodeRelativePath(project, n)
                  names == NamesBelowRoot(project, n, Cardinality(DOMAIN project.nodes))
              IN /\ rel = join(names, <<"/">>)
                 /\ names[Len(names)] = Chars(project.nodes[n].name)
                 /\ Head(rel) # "/"
                 /\ (project.nodes[n].parentId = project.rootId) =
                        (rel = Chars(project.nodes[n].name))
        /\ getNodeRelativePath(project, project.rootId) = <<>>
        /\ getNodeRelativePath(project, "ghost") = <<>>

\* C17 witness: a valid project with a created file two folders below the root
C17_Witness ==
    /\ Loaded
    /\ ValidProject(project)
    /\ \E n \in DOMAIN project.nodes \ DOMAIN SAMPLE_PROJECT.nodes :
          /\ project.nodes[n].type = "file"
          /\ LET par == project.nodes[n].parentId
             IN /\ par # project.rootId
                /\ project.nodes[par].parentId # project.rootId

\* C18: after any sequence of createFile, createFolder and deleteNode calls
\* every node name is a single path segment, and no two distinct File nodes
\* have the same relative path, so a reference matches at most one file.
C18_RelativePathsDistinct ==
    Loaded =>
        /\ \A i \in DOMAIN project.nodes : IsSegment(project.nodes[i].name)
        /\ \A f, g \in DOMAIN project.nodes :
              (/\ f # g
               /\ project.nodes[f].type = "file"
               /\ project.nodes[g].type = "file")
              => getNodeRelativePath(project, f) # getNodeRelativePath(project, g)

\* --------------------------------------------------------- preview claims
\* the Files named index.html directly under the root
Entries(p) ==
    {i \in DOMAIN p.nodes : /\ p.nodes[i].type = "file"
                            /\ p.nodes[i].name = "index.html"
                            /\ p.nodes[i].parentId = p.rootId}

IsAbsoluteUrl(value) ==
    \/ startsWith(value, <<"/", "/">>)
    \/ \E k \in 2..Len(value) :
          /\ value[k] = ":"
          /\ \A j \in 1..(k - 1) : value[j] \notin {"/", ":", ".", "?", "#", " "}

\* the attributes of a document, in order
Attrs(doc) == SelectSeq(doc, LAMBDA item : item.kind = "attr")

\* the MIME type the extension of a name stands for
ExtensionType(name) ==
    LET c == Chars(name)
        n == Len(c)
    IN IF n >= 3 /\ <<c[n - 2], c[n - 1], c[n]>> = <<".", "j", "s">>
       THEN "application/javascript"
       ELSE IF n >= 4 /\ <<c[n - 3], c[n - 2], c[n - 1], c[n]>> = <<".", "c", "s", "s">>
       THEN "text/css"
       ELSE "text/plain"

\* C20: for every local href/src reference of the entry file, with the
\* candidate being the value without one leading "./": when a File's
\* relative path equals the candidate, the attribute refers to a resource
\* with the content of such a File and the MIME type of its extension
\* (script for .js, stylesheet for .css, plain text otherwise); when no File
\* matches, the attribute in the output has the original value.
C20_AssetsResolved ==
    (Loaded /\ htmlNode(project) # NULL) =>
        LET entry == Attrs(Html(project.nodes[htmlNode(project)].content))
            out == Attrs(srcDoc(project))
        IN /\ Len(out) = Len(entry)
           /\ \A k \in 1..Len(entry) :
                LET raw == entry[k].value
                    local == ~IsAbsoluteUrl(raw)
                    candidate == IF Len(raw) >= 2 /\ raw[1] = "." /\ raw[2] = "/"
                                 THEN SubSeq(raw, 3, Len(raw))
                                 ELSE raw
                    matches == {f \in DOMAIN project.nodes :
                                  /\ project.nodes[f].type = "file"
                                  /\ getNodeRelativePath(project, f) = candidate}
                IN /\ out[k].name = entry[k].name
                   /\ local =>
                        IF matches # {}
                        THEN \E f \in matches :
                                out[k].blob = Blob(project.nodes[f].content,
                                                   ExtensionType(project.nodes[f].name))
                        ELSE out[k] = entry[k]

\* C20 witness: the entry is the page with references and src has a file
\* named index.html: a stylesheet, a script and a plain text file are
\* resolved, missing.js is not
C20_Witness ==
    /\ Loaded
    /\ htmlNode(project) # NULL
    /\ project.nodes[htmlNode(project)].content = "page"
    /\ \E f \in DOMAIN project.nodes :
          /\ project.nodes[f].type = "file"
          /\ project.nodes[f].name = "index.html"
          /\ project.nodes[f].parentId = "src"
    /\ {Attrs(srcDoc(project))[k].blob.type : k \in 1..Len(Attrs(srcDoc(project)))}
          = {"text/css", "application/javascript", "text/plain", "none"}

\* C21: an href/src attribute whose value is an absolute URL, one with a
\* scheme or a leading "//", is never looked up and never substituted,
\* whatever files the project has.
C21_AbsoluteUrlsUntouched ==
    (Loaded /\ htmlNode(project) # NULL) =>
        LET entry == Attrs(Html(project.nodes[htmlNode(project)].content))
            out == Attrs(srcDoc(project))
        IN /\ Len(out) = Len(entry)
           /\ \A k \in 1..Len(entry) :
                IsAbsoluteUrl(entry[k].value) => out[k] = entry[k]

\* ------------------------------------------------------ saved means written
\* C30: whenever the controller is in Saved and no write is in flight, the
\* project last written to the gateway is the current in-memory project: an
\* edit made during a write is not reported as Saved before a later write
\* that contains it has completed.
C30_SavedIsLastWritten ==
    (Loaded /\ saveStatus = "saved" /\ inflight = <<>>)
    => (project.id \in DOMAIN stored /\ stored[project.id] = project)

\* ------------------------------------------------- preview, console, export
\* C22: computing the preview document twice for one project snapshot, with
\* no mutation in between, gives the same document, also when references
\* of the entry file resolve to project files.
C22_CompileTwiceSame ==
    [][(lastOp' = "onReset" /\ project' = project) => srcDocMemo' = srcDocMemo]_vars

\* the channels of the message schema
Channels == {"log", "warn", "error", "info"}

\* the message has the schema's shape: the bridge's source tag, a channel,
\* a list of values
MatchesSchema(data) ==
    /\ data.source = "preview-console"
    /\ data.type \in Channels
    /\ data.data \in Seq({data.data[k] : k \in DOMAIN data.data})

\* C23: a message the host receives is appended to the log as one entry at
\* the end, the earlier entries untouched, when its channel is log, warn,
\* error or info and its shape matches; any other message, one with an
\* unrecognized channel among them, leaves the log as it is.
C23_OnlySchemaMessagesLogged ==
    [][lastOp' = "handleMessage" =>
        LET data == Head(messages)
        IN IF MatchesSchema(data)
           THEN /\ Len(logs') = Len(logs) + 1
                /\ SubSeq(logs', 1, Len(logs)) = logs
                /\ logs'[Len(logs')].type = data.type
                /\ logs'[Len(logs')].data = data.data
           ELSE logs' = logs]_vars

\* C24: the host raises a notification when it accepts a message on the
\* error channel, and none for log, warn and info.
C24_ErrorRaisesNotification ==
    [][(lastOp' = "handleMessage" /\ MatchesSchema(Head(messages))) =>
        (lastAlert' # "none" <=> Head(messages).type = "error")]_vars

\* C25: nothing the sandboxed document does reads or changes the host's
\* storage: the stored projects and the last-opened marker stay as they are.
C25_SandboxLeavesStorage ==
    [][lastOp' = "SandboxStep" => UNCHANGED <<stored, lastProjectId>>]_vars

\* the entry file of the current project has a closing head tag
EntryHasHead ==
    /\ Loaded
    /\ htmlNode(project) # NULL
    /\ \E k \in DOMAIN Html(project.nodes[htmlNode(project)].content) :
          Html(project.nodes[htmlNode(project)].content)[k] = HeadClose

\* C29: when the entry file has a closing head tag, a call of console.log,
\* warn, error or info by the previewed content posts one message with that
\* channel, carrying the serialized arguments or the placeholder, an
\* uncaught exception posts one message on the error channel, and the host
\* appends each such message to its log in the order of arrival.
C29_EveryConsoleCallForwarded ==
    [][EntryHasHead =>
        /\ lastOp' = "SandboxStep" =>
             LET st == Statement(srcDocMemo[sandboxPc + 1])
                 last == messages'[Len(messages')]
             IN /\ Channel(st.fn) # NULL =>
                     /\ Len(messages') = Len(messages) + 1
                     /\ SubSeq(messages', 1, Len(messages)) = messages
                     /\ last.source = "preview-console"
                     /\ last.type = Channel(st.fn)
                     /\ \/ last.data = <<"[non-serializable object]">>
                        \/ Len(last.data) = Len(st.args)
                /\ st.fn = "throw" =>
                     /\ Len(messages') = Len(messages) + 1
                     /\ SubSeq(messages', 1, Len(messages)) = messages
                     /\ last.source = "preview-console"
                     /\ last.type = "error"
        /\ (lastOp' = "handleMessage" /\ MatchesSchema(Head(messages))) =>
             /\ Len(logs') = Len(logs) + 1
             /\ SubSeq(logs', 1, Len(logs)) = logs
             /\ logs'[Len(logs')].type = Head(messages).type
             /\ logs'[Len(logs')].data = Head(messages).data]_vars

\* the document without the names of its blob: URLs
WithoutUrls(doc) ==
    [k \in 1..Len(doc) |-> IF doc[k].blob # NoBlob THEN [doc[k] EXCEPT !.value = <<>>]
                           ELSE doc[k]]

\* C28: after every accepted createFile, createFolder, deleteNode and
\* updateFileContent, a change to a file other than the entry file included,
\* the document handed to the iframe is the one computed from the current
\* project.
C28_PreviewNeverStale ==
    [][(/\ lastOp' \in {"handleNewFile", "handleNewFolder", "handleDeleteNode",
                        "handleFileChange"}
        /\ project' # project)
       => WithoutUrls(srcDocMemo') = srcDoc(project')]_vars

\* C28 witness: the entry file is the page with references, and the last
\* edit gave the stylesheet, not the entry file, a new content that the
\* document's blob holds
C28_Witness ==
    /\ Loaded
    /\ lastOp = "handleFileChange"
    /\ htmlNode(project) # NULL
    /\ project.nodes[htmlNode(project)].content = "page"
    /\ "style.css" \in DOMAIN project.nodes
    /\ project.nodes["style.css"].content = "x"
    /\ \E k \in 1..Len(srcDocMemo) : srcDocMemo[k].blob = Blob("x", "text/css")

\* the two projects have the same id, the same node ids and node by node
\* the same name, type, parentId, content and childrenIds
SameTree(p, q) ==
    /\ p.id = q.id
    /\ DOMAIN p.nodes = DOMAIN q.nodes
    /\ \A i \in DOMAIN p.nodes :
          /\ p.nodes[i].name = q.nodes[i].name
          /\ p.nodes[i].type = q.nodes[i].type
          /\ p.nodes[i].parentId = q.nodes[i].parentId
          /\ p.nodes[i].content = q.nodes[i].content
          /\ p.nodes[i].childrenIds = q.nodes[i].childrenIds

\* C26: importing the text an export produced makes the exported project
\* the current project again: same project id, same node ids, and for each
\* node the same name, type, parentId, content and childrenIds order.
C26_ExportImportRoundTrip ==
    [][\A f \in DownloadedFiles : handleImport(f) => SameTree(project', exported)]_vars

\* C26 witness: a project with an edited file and a created file was
\* exported, edited further, and is the current project again after the
\* import of the download
C26_Witness ==
    /\ lastOp = "handleImport"
    /\ lastAlert = "none"
    /\ download # <<>>
    /\ project = exported
    /\ edits = MaxEdits
    /\ NewId(0) \in DOMAIN project.nodes
    /\ stored[project.id] = project

\* the parsed file lacks id, name or nodes
LacksMember(f) == f.json /\ (f.value.id = NULL \/ f.value.name = "" \/ ~f.hasNodes)

\* C27: an import of a document without id, name or nodes reports a format
\* error and leaves the stored projects, the last-opened marker, the
\* current project and the save status as they were.
C27_InvalidImportChangesNothing ==
    [][\A f \in PortFiles :
          (LacksMember(f) /\ handleImport(f)) =>
             /\ lastAlert' = "FormatError"
             /\ UNCHANGED <<stored, lastProjectId, project, saveStatus>>]_vars

\* C27 witness: an import was refused while the project had unsaved edits
C27_Witness ==
    /\ lastOp = "handleImport"
    /\ lastAlert = "FormatError"
    /\ Loaded
    /\ saveStatus = "unsaved"
    /\ stored[project.id] # project

====
